---- MODULE Spec2Model ----
(***************************************************************************)
(* The game-state machine of src/src/context/GameContext.tsx (the second,  *)
(* complete variant of the provider, lines 956-2324).                      *)
(*                                                                         *)
(* React semantics that the model keeps: inside one handler every read of  *)
(* `gameState` sees the snapshot g of the render the handler was created   *)
(* in, while every setGameState(prev => ...) is queued and applied, in     *)
(* order, to the latest state.  Each handler is therefore an operator of   *)
(* two arguments: g, the snapshot it reads, and the state its queued       *)
(* updaters are folded over.  A handler that runs after a render has both  *)
(* equal to the current gameState.                                         *)
(***************************************************************************)
EXTENDS Integers, Sequences, FiniteSets, TLC

VARIABLES gameState, twin, currentPlayer, uuid, lastCall, guardedLastNight

vars == <<gameState, twin, currentPlayer, uuid, lastCall, guardedLastNight>>

Null == "null"

PlayerRole == {"villager", "wolf", "wolfKing", "seer", "witch", "hunter", "guard", "moderator"}

GamePhase == {"lobby", "night", "day", "voting", "results", "gameOver"}

ActionType == {"vote", "wolfKill", "seerReveal", "witchSave", "witchKill",
               "hunterShoot", "wolfKingKill", "guardProtect"}

(* ------------------------------ bounds -------------------------------- *)

\* frames the call stack holds before the engine raises RangeError
MaxStack == 4
\* calls of addPlayer explored (each draws a fresh uuid)
MaxAdds == 1
\* resets explored (each draws a fresh gameId)
MaxGames == 1
\* length of the wolf log up to which startGame is explored
MaxStarts == 2
\* players of the rosters determineWinners is applied to
MaxRoster == 3
\* nights played per game
MaxDay == 2
\* length of the village log up to which chat, speaker changes and restarts are explored
MaxLog == 2
\* length of the village log up to which advancePhase is explored
MaxNarrations == 24
\* calls of setNextSpeaker explored per game
MaxTurns == 4
\* chat messages explored per channel
MaxChat == 2

(* ------------------------------ helpers ------------------------------- *)

Player(id, role, status, isAI) == [id |-> id, role |-> role, status |-> status, isAI |-> isAI]

\* currentPlayer === null
NoPlayer == Player(Null, Null, Null, FALSE)

\* uuidv4() for the k-th player added
NewId(k) == "n" \o ToString(k)

\* players.find(p => p.id === id) !== undefined
HasPlayer(players, id) == \E i \in DOMAIN players : players[i].id = id

\* players.find(p => p.id === id): the first match
FindPlayer(players, id) ==
    players[CHOOSE i \in DOMAIN players :
                /\ players[i].id = id
                /\ \A j \in DOMAIN players : players[j].id = id => i <= j]

\* alivePlayers.findIndex(p => p.id === id), 0-based, -1 when absent
FindIndex(s, id) ==
    IF \E i \in DOMAIN s : s[i].id = id
    THEN (CHOOSE i \in DOMAIN s : s[i].id = id /\ \A j \in DOMAIN s : s[j].id = id => i <= j) - 1
    ELSE -1

ChatMessage(senderId, content, about, type) ==
    [senderId |-> senderId, content |-> content, about |-> about, type |-> type]

initialNightActions ==
    [wolfKill |-> Null, seerReveal |-> Null, witchSave |-> Null, witchKill |-> Null,
     hunterTarget |-> Null, wolfKingTarget |-> Null, guardTarget |-> Null,
     lastGuardTarget |-> Null]

initialGameState(id) ==
    [gameId |-> id,
     phase |-> "lobby",
     players |-> <<>>,
     messages |-> [village |-> <<>>, wolf |-> <<>>],
     votes |-> <<>>,
     dayCount |-> 0,
     nightActions |-> initialNightActions,
     witchPowers |-> [hasPotion |-> TRUE, hasPoison |-> TRUE],
     speakingPlayerId |-> Null,
     winners |-> Null]

\* mutant: every narration is stored in the village channel
SystemChannelAllVillage(type) == "village"

\* the channel a narration of the given type is stored in
SystemChannel(type) == IF type = "wolf" THEN "wolf" ELSE "village"

\* addSystemMessage(content, type), as the updater it queues
\* mutant: the channel keeps only its newest message
addSystemMessageNewestOnly(prev, content, about, type) ==
    IF SystemChannel(type) = "wolf"
    THEN [prev EXCEPT !.messages.wolf = <<ChatMessage("system", content, about, type)>>]
    ELSE [prev EXCEPT !.messages.village = <<ChatMessage("system", content, about, type)>>]

addSystemMessage(prev, content, about, type) ==
    IF SystemChannel(type) = "wolf"
    THEN [prev EXCEPT !.messages.wolf = Append(@, ChatMessage("system", content, about, type))]
    ELSE [prev EXCEPT !.messages.village = Append(@, ChatMessage("system", content, about, type))]

\* players.map(p => p.id === id ? {...p, status: 'dead'} : p)
MarkDead(players, id) ==
    [i \in DOMAIN players |->
        IF players[i].id = id THEN [players[i] EXCEPT !.status = "dead"] ELSE players[i]]

KillPlayer(prev, id) == [prev EXCEPT !.players = MarkDead(@, id)]

(* --------------------------- determineWinners -------------------------- *)

IsAlive(p) == p.status = "alive"
IsWolfAligned(p) == p.role = "wolf" \/ p.role = "wolfKing"
IsVillager(p) == p.role = "villager"
\* mutant: the moderator is not excluded from the special roles
IsSpecialVillagerWithModerator(p) ==
    p.role # "wolf" /\ p.role # "wolfKing" /\ p.role # "villager"

IsSpecialVillager(p) ==
    p.role # "wolf" /\ p.role # "wolfKing" /\ p.role # "villager" /\ p.role # "moderator"

determineWinners(players) ==
    LET alivePlayers == SelectSeq(players, IsAlive)
        aliveWolves == SelectSeq(alivePlayers, IsWolfAligned)
        aliveVillagers == SelectSeq(alivePlayers, IsVillager)
        aliveSpecialVillagers == SelectSeq(alivePlayers, IsSpecialVillager)
    IN IF Len(aliveVillagers) = 0 \/ Len(aliveSpecialVillagers) = 0 THEN "wolf"
       ELSE IF Len(aliveWolves) = 0 THEN "villager"
       ELSE Null

\* "Game Over! ${winnerText} have won!"
WinnerText(winners) ==
    IF winners = "wolf" \/ winners = "wolfKing" THEN "gameOverWerewolves" ELSE "gameOverVillagers"

(* ------------------------------ startGame ------------------------------ *)

\* mutant: the moderator check is missing
StartAllowedNoModeratorCheck(players) == ~(Len(players) < 4)

\* the two early returns of startGame: true when the game may start
StartAllowed(players) ==
    /\ ~(Len(players) < 4)
    /\ \E i \in DOMAIN players : players[i].role = "moderator"

\* mutant: the start also brings every player back to life
StartUpdateReviving(prev) ==
    [prev EXCEPT !.phase = "night",
                 !.dayCount = 1,
                 !.witchPowers = [hasPotion |-> TRUE, hasPoison |-> TRUE],
                 !.players = [i \in DOMAIN @ |-> [@[i] EXCEPT !.status = "alive"]]]

StartUpdate(prev) ==
    [prev EXCEPT !.phase = "night",
                 !.dayCount = 1,
                 !.witchPowers = [hasPotion |-> TRUE, hasPoison |-> TRUE]]

startGame(g, prev) ==
    IF ~StartAllowed(g.players) THEN prev
    ELSE addSystemMessage(
             addSystemMessage(StartUpdate(prev), "gameBegun", Null, "moderator"),
             "wolvesChoose", Null, "wolf")

(* ------------------------- death-triggered abilities ------------------- *)

\* A handler in progress: st is the state its queued updaters have produced
\* so far, threw is TRUE once the call stack overflowed (RangeError).  The
\* updaters queued before the throw stay queued and are applied; nothing
\* after the throwing call runs.
\* stack: the frames the engine's call stack has room for
RunOn(st, stack) == [st |-> st, threw |-> FALSE, stack |-> stack]

Run(st) == RunOn(st, MaxStack)

Say(r, content, about, type) == [r EXCEPT !.st = addSystemMessage(@, content, about, type)]

RECURSIVE processHunterAbility(_, _, _)
RECURSIVE processWolfKingAbility(_, _, _)

\* fuel: frames left on the call stack
processHunterAbility(g, r, fuel) ==
    IF fuel = 0 THEN [r EXCEPT !.threw = TRUE]
    ELSE LET hunterTarget == g.nightActions.hunterTarget IN
         IF hunterTarget = Null \/ ~HasPlayer(g.players, hunterTarget) THEN r
         ELSE LET target == FindPlayer(g.players, hunterTarget)
                  r1 == [Say(r, "hunterShoots", target.id, "moderator")
                             EXCEPT !.st = KillPlayer(@, hunterTarget)]
              IN IF target.role = "wolfKing"
                 THEN processWolfKingAbility(g, Say(r1, "wolfKingHowls", Null, "moderator"), fuel - 1)
                 ELSE r1

processWolfKingAbility(g, r, fuel) ==
    IF fuel = 0 THEN [r EXCEPT !.threw = TRUE]
    ELSE LET wolfKingTarget == g.nightActions.wolfKingTarget IN
         IF wolfKingTarget = Null \/ ~HasPlayer(g.players, wolfKingTarget) THEN r
         ELSE LET target == FindPlayer(g.players, wolfKingTarget)
                  r1 == [Say(r, "wolfKingDrags", target.id, "moderator")
                             EXCEPT !.st = KillPlayer(@, wolfKingTarget)]
              IN IF target.role = "hunter"
                 THEN processHunterAbility(g, Say(r1, "hunterFinalShot", Null, "moderator"), fuel - 1)
                 ELSE r1

\* mutant: the wolfKing's branch is missing
DeathAbilityHunterOnly(g, r, killedPlayer) ==
    IF killedPlayer.role = "hunter"
    THEN processHunterAbility(g, Say(r, "hunterFinalShot", Null, "moderator"), r.stack)
    ELSE r

\* the if / else-if that follows every kill (wolf kill, poison, lynch)
DeathAbility(g, r, killedPlayer) ==
    IF killedPlayer.role = "hunter"
    THEN processHunterAbility(g, Say(r, "hunterFinalShot", Null, "moderator"), r.stack)
    ELSE IF killedPlayer.role = "wolfKing"
    THEN processWolfKingAbility(g, Say(r, "wolfKingHowls", Null, "moderator"), r.stack)
    ELSE r

\* mutant: the victim is not looked up first; reading the name of a player
\* that does not exist throws
KillAndChainUnguarded(g, r, id, narration) ==
    IF ~HasPlayer(g.players, id) THEN [r EXCEPT !.threw = TRUE]
    ELSE LET killedPlayer == FindPlayer(g.players, id)
             r1 == [Say(r, narration, killedPlayer.id, "moderator")
                        EXCEPT !.st = KillPlayer(@, id)]
         IN DeathAbility(g, r1, killedPlayer)

\* narrate a death, mark it, run the victim's ability
KillAndChain(g, r, id, narration) ==
    IF ~HasPlayer(g.players, id) THEN r
    ELSE LET killedPlayer == FindPlayer(g.players, id)
             r1 == [Say(r, narration, killedPlayer.id, "moderator")
                        EXCEPT !.st = KillPlayer(@, id)]
         IN DeathAbility(g, r1, killedPlayer)

(* --------------------------- processNightActions ----------------------- *)

\* mutant: the witch's save is tested before the guard's protection
WolfAttackOutcomeWitchFirst(na) ==
    IF na.wolfKill # Null /\ na.witchSave # Null /\ na.wolfKill = na.witchSave THEN "saved"
    ELSE IF na.wolfKill # Null /\ na.guardTarget # Null /\ na.wolfKill = na.guardTarget THEN "protected"
    ELSE IF na.wolfKill # Null THEN "killed"
    ELSE "none"

\* mutant: any protection of the guard stops the wolves
WolfAttackOutcomeAnyGuard(na) ==
    IF na.wolfKill # Null /\ na.guardTarget # Null THEN "protected"
    ELSE IF na.wolfKill # Null /\ na.witchSave # Null /\ na.wolfKill = na.witchSave THEN "saved"
    ELSE IF na.wolfKill # Null THEN "killed"
    ELSE "none"

\* "protected", "saved", "killed" or "none": the branch the wolves' attack takes
WolfAttackOutcome(na) ==
    IF na.wolfKill # Null /\ na.guardTarget # Null /\ na.wolfKill = na.guardTarget THEN "protected"
    ELSE IF na.wolfKill # Null /\ na.witchSave # Null /\ na.wolfKill = na.witchSave THEN "saved"
    ELSE IF na.wolfKill # Null THEN "killed"
    ELSE "none"

ResolveWolfKill(g, r) ==
    LET outcome == WolfAttackOutcome(g.nightActions) IN
    IF outcome = "protected" THEN Say(r, "attackProtected", Null, "moderator")
    ELSE IF outcome = "saved" THEN Say(r, "attackSaved", Null, "moderator")
    ELSE IF outcome = "killed" THEN KillAndChain(g, r, g.nightActions.wolfKill, "killedByWolves")
    ELSE r

\* mutant: the guard's protection also stops the poison
ResolveWitchKillUnlessGuarded(g, r) ==
    IF r.threw THEN r
    ELSE IF g.nightActions.witchKill # Null /\ g.nightActions.witchKill # g.nightActions.guardTarget
    THEN KillAndChain(g, r, g.nightActions.witchKill, "poisoned")
    ELSE r

ResolveWitchKill(g, r) ==
    IF r.threw THEN r
    ELSE IF g.nightActions.witchKill # Null
    THEN KillAndChain(g, r, g.nightActions.witchKill, "poisoned")
    ELSE r

\* mutant: the finding is announced to the village
ResolveSeerRevealPublic(g, r) ==
    IF r.threw THEN r
    ELSE LET targetId == g.nightActions.seerReveal IN
         IF /\ targetId # Null
            /\ HasPlayer(g.players, targetId)
            /\ \E i \in DOMAIN g.players :
                   g.players[i].role = "seer" /\ g.players[i].status = "alive"
         THEN LET target == FindPlayer(g.players, targetId)
                  isWolf == target.role = "wolf" \/ target.role = "wolfKing"
                  seerMessage == ChatMessage("system",
                                     IF isWolf THEN "seerAreWolf" ELSE "seerNotWolf",
                                     target.id, "system")
              IN [r EXCEPT !.st.messages.village = Append(@, seerMessage)]
         ELSE r

ResolveSeerReveal(g, r) ==
    IF r.threw THEN r
    ELSE LET targetId == g.nightActions.seerReveal IN
         IF /\ targetId # Null
            /\ HasPlayer(g.players, targetId)
            /\ \E i \in DOMAIN g.players :
                   g.players[i].role = "seer" /\ g.players[i].status = "alive"
         THEN LET target == FindPlayer(g.players, targetId)
                  isWolf == target.role = "wolf" \/ target.role = "wolfKing"
                  seerMessage == ChatMessage("system",
                                     IF isWolf THEN "seerAreWolf" ELSE "seerNotWolf",
                                     target.id, "system")
              IN [r EXCEPT !.st.messages.wolf = Append(@, seerMessage)]
         ELSE r

\* the win check that ends processNightActions: it reads the snapshot g
NightWinCheck(g, r) ==
    IF r.threw THEN r
    ELSE LET winners == determineWinners(g.players) IN
         IF winners # Null
         THEN Say([r EXCEPT !.st.phase = "gameOver", !.st.winners = winners],
                  WinnerText(winners), Null, "moderator")
         ELSE r

processNightActions(g, r) ==
    NightWinCheck(g, ResolveSeerReveal(g, ResolveWitchKill(g, ResolveWolfKill(g, r))))

(* ----------------------------- processDayVoting ------------------------ *)

IsBallot(v) == v.actionType = "vote"

\* voteCounts[targetId], over the ballots of type 'vote'
VoteCount(votes, targetId) ==
    Len(SelectSeq(votes, LAMBDA v : IsBallot(v) /\ v.targetId = targetId))

\* Object.entries(voteCounts): the targets in the order their first ballot was cast
RECURSIVE TargetsInOrder(_, _)
TargetsInOrder(votes, seen) ==
    IF votes = <<>> THEN <<>>
    ELSE LET v == Head(votes) IN
         IF IsBallot(v) /\ v.targetId \notin seen
         THEN <<v.targetId>> \o TargetsInOrder(Tail(votes), seen \cup {v.targetId})
         ELSE TargetsInOrder(Tail(votes), seen)

\* mutant: >= for >, so a later target with an equal count replaces the leader
TallyStepLastWins(acc, targetId, count) ==
    IF count >= acc.maxVotes THEN [maxVotes |-> count, lynchTargetIds |-> <<targetId>>]
    ELSE acc

\* one step of the forEach over the entries: acc = [maxVotes, lynchTargetIds]
TallyStep(acc, targetId, count) ==
    IF count > acc.maxVotes THEN [maxVotes |-> count, lynchTargetIds |-> <<targetId>>]
    ELSE IF count = acc.maxVotes
    THEN [acc EXCEPT !.lynchTargetIds = Append(@, targetId)]
    ELSE acc

RECURSIVE TallyLoop(_, _, _)
TallyLoop(acc, targets, votes) ==
    IF targets = <<>> THEN acc
    ELSE TallyLoop(TallyStep(acc, Head(targets), VoteCount(votes, Head(targets))),
                   Tail(targets), votes)

\* lynchTargetIds after the loop
LynchTargetIds(votes) ==
    TallyLoop([maxVotes |-> 0, lynchTargetIds |-> <<>>], TargetsInOrder(votes, {}), votes).lynchTargetIds

\* mutant: with no ballot cast a player drawn by lot is lynched
processDayVotingByLot(g, r) ==
    LET lynchTargetIds == LynchTargetIds(g.votes) IN
    IF Len(lynchTargetIds) = 0
    THEN IF g.players = <<>> THEN Say(r, "noLynch", Null, "moderator")
         ELSE KillAndChain(g, r, g.players[(g.gameId % Len(g.players)) + 1].id, "lynched")
    ELSE IF Len(lynchTargetIds) > 1 THEN Say(r, "voteTied", Null, "moderator")
    ELSE KillAndChain(g, r, lynchTargetIds[1], "lynched")

processDayVoting(g, r) ==
    LET lynchTargetIds == LynchTargetIds(g.votes) IN
    IF Len(lynchTargetIds) = 0 THEN Say(r, "noLynch", Null, "moderator")
    ELSE IF Len(lynchTargetIds) > 1 THEN Say(r, "voteTied", Null, "moderator")
    ELSE KillAndChain(g, r, lynchTargetIds[1], "lynched")

(* -------------------------------- castVote ----------------------------- *)

VoteAction(voterId, targetId, actionType) ==
    [voterId |-> voterId, targetId |-> targetId, actionType |-> actionType]

\* mutant: the voter's earlier ballot is kept
FilteredVotesKeepAll(votes, voterId, actionType) == votes

\* gameState.votes.filter(v => !(v.voterId === id && v.actionType === actionType))
FilteredVotes(votes, voterId, actionType) ==
    SelectSeq(votes, LAMBDA v : ~(v.voterId = voterId /\ v.actionType = actionType))

\* the switch cases castVote and simulateVote share
NightActionUpdate(prev, targetId, actionType) ==
    CASE actionType = "wolfKill" -> [prev EXCEPT !.nightActions.wolfKill = targetId]
      [] actionType = "seerReveal" -> [prev EXCEPT !.nightActions.seerReveal = targetId]
      [] actionType = "witchSave" ->
            [prev EXCEPT !.nightActions.witchSave = targetId, !.witchPowers.hasPotion = FALSE]
      [] actionType = "witchKill" ->
            [prev EXCEPT !.nightActions.witchKill = targetId, !.witchPowers.hasPoison = FALSE]
      [] actionType = "hunterShoot" -> [prev EXCEPT !.nightActions.hunterTarget = targetId]
      [] actionType = "wolfKingKill" -> [prev EXCEPT !.nightActions.wolfKingTarget = targetId]
      [] OTHER -> prev

\* mutant: the test against lastGuardTarget is missing
GuardProtectUpdateNoCheck(g, prev, targetId) ==
    [prev EXCEPT !.nightActions.guardTarget = targetId,
                 !.nightActions.lastGuardTarget = targetId]

\* the guardProtect case of castVote
GuardProtectUpdate(g, prev, targetId) ==
    IF g.nightActions.lastGuardTarget = targetId THEN prev
    ELSE [prev EXCEPT !.nightActions.guardTarget = targetId,
                      !.nightActions.lastGuardTarget = targetId]

castVote(g, prev, cp, targetId, actionType) ==
    IF cp = NoPlayer THEN prev
    ELSE LET newVote == VoteAction(cp.id, targetId, actionType)
             filteredVotes == FilteredVotes(g.votes, cp.id, actionType)
             s1 == [prev EXCEPT !.votes = Append(filteredVotes, newVote)]
         IN IF g.phase = "night"
            THEN IF actionType = "guardProtect" THEN GuardProtectUpdate(g, s1, targetId)
                 ELSE NightActionUpdate(s1, targetId, actionType)
            ELSE s1

\* simulateVote: the scripted driver's ballot on behalf of any player
simulateVote(g, prev, senderId, targetId, actionType) ==
    IF ~HasPlayer(g.players, senderId) \/ ~HasPlayer(g.players, targetId) THEN prev
    ELSE LET sender == FindPlayer(g.players, senderId)
             target == FindPlayer(g.players, targetId)
             vote == VoteAction(sender.id, target.id, actionType)
             filteredVotes == FilteredVotes(g.votes, sender.id, actionType)
             s1 == [prev EXCEPT !.votes = Append(filteredVotes, vote)]
         IN IF g.phase = "night"
            THEN IF actionType = "guardProtect"
                 THEN [s1 EXCEPT !.nightActions.guardTarget = target.id]
                 ELSE NightActionUpdate(s1, target.id, actionType)
            ELSE s1

(* ------------------------------ setNextSpeaker ------------------------- *)

CanSpeak(p) == p.status = "alive" /\ p.role # "moderator"

\* mutant: the index stops at the last player instead of wrapping
NextSpeakerIndexNoWrap(currentSpeakerIndex, length) ==
    IF currentSpeakerIndex + 1 < length THEN currentSpeakerIndex + 1 ELSE currentSpeakerIndex

\* (currentSpeakerIndex + 1) % alivePlayers.length, 0-based
NextSpeakerIndex(currentSpeakerIndex, length) == (currentSpeakerIndex + 1) % length

\* mutant: the turn is announced even when nobody can take it
setNextSpeakerAnnounceNobody(g, prev) ==
    LET alivePlayers == SelectSeq(g.players, CanSpeak) IN
    IF Len(alivePlayers) = 0
    THEN addSystemMessage([prev EXCEPT !.speakingPlayerId = Null],
                          "turnToSpeak", Null, "moderator")
    ELSE LET currentSpeakerIndex == FindIndex(alivePlayers, g.speakingPlayerId)
             nextSpeaker == alivePlayers[NextSpeakerIndex(currentSpeakerIndex, Len(alivePlayers)) + 1]
         IN addSystemMessage([prev EXCEPT !.speakingPlayerId = nextSpeaker.id],
                             "turnToSpeak", nextSpeaker.id, "moderator")

setNextSpeaker(g, prev) ==
    LET alivePlayers == SelectSeq(g.players, CanSpeak) IN
    \* length 0: the index is NaN, alivePlayers[NaN] is undefined
    IF Len(alivePlayers) = 0 THEN prev
    ELSE LET currentSpeakerIndex == FindIndex(alivePlayers, g.speakingPlayerId)
             nextSpeaker == alivePlayers[NextSpeakerIndex(currentSpeakerIndex, Len(alivePlayers)) + 1]
         IN addSystemMessage([prev EXCEPT !.speakingPlayerId = nextSpeaker.id],
                             "turnToSpeak", nextSpeaker.id, "moderator")

(* ------------------------------- advancePhase -------------------------- *)

\* case 'night', after processNightActions
NightToDay(g, r) ==
    IF r.threw THEN r
    ELSE LET alivePlayers == SelectSeq(g.players, CanSpeak) IN
         IF Len(alivePlayers) > 0
         THEN LET firstSpeaker == alivePlayers[1] IN
              Say(Say([r EXCEPT !.st.phase = "day", !.st.votes = <<>>,
                                !.st.speakingPlayerId = firstSpeaker.id],
                      "dawnBreaks", Null, "moderator"),
                  "pleaseShare", firstSpeaker.id, "moderator")
         ELSE Say([r EXCEPT !.st.phase = "day", !.st.votes = <<>>],
                  "dawnBreaks", Null, "moderator")

\* mutant: the night begins with the nightActions of the night before
WinOrNightKeepActions(g, r) ==
    IF r.threw THEN r
    ELSE LET winners == determineWinners(g.players) IN
         IF winners # Null
         THEN Say([r EXCEPT !.st.phase = "gameOver", !.st.winners = winners],
                  WinnerText(winners), Null, "moderator")
         ELSE Say(Say([r EXCEPT !.st.phase = "night",
                                !.st.dayCount = @ + 1,
                                !.st.votes = <<>>,
                                !.st.nightActions.lastGuardTarget = r.st.nightActions.guardTarget],
                      "nightFalls", Null, "moderator"),
                  "wolvesChooseNext", Null, "wolf")

\* case 'voting' and case 'results', after the tally: the win check reads g
WinOrNight(g, r) ==
    IF r.threw THEN r
    ELSE LET winners == determineWinners(g.players) IN
         IF winners # Null
         THEN Say([r EXCEPT !.st.phase = "gameOver", !.st.winners = winners],
                  WinnerText(winners), Null, "moderator")
         ELSE Say(Say([r EXCEPT !.st.phase = "night",
                                !.st.dayCount = @ + 1,
                                !.st.votes = <<>>,
                                !.st.nightActions =
                                    [initialNightActions EXCEPT
                                        !.lastGuardTarget = r.st.nightActions.guardTarget]],
                      "nightFalls", Null, "moderator"),
                  "wolvesChooseNext", Null, "wolf")

\* advancePhase for every phase but gameOver (which is resetGame)
advancePhase(g, r) ==
    CASE g.phase = "lobby" -> [r EXCEPT !.st = startGame(g, @)]
      [] g.phase = "night" -> NightToDay(g, processNightActions(g, r))
      [] g.phase = "day" ->
            Say([r EXCEPT !.st.phase = "voting", !.st.speakingPlayerId = Null],
                "timeToVote", Null, "moderator")
      [] g.phase = "voting" -> WinOrNight(g, processDayVoting(g, r))
      [] g.phase = "results" -> WinOrNight(g, r)
      [] OTHER -> r

(* ----------------------- roster and chat operations -------------------- *)

sendMessage(prev, cp, content, type) ==
    IF cp = NoPlayer THEN prev
    ELSE IF type = "wolf"
    THEN [prev EXCEPT !.messages.wolf = Append(@, ChatMessage(cp.id, content, Null, type))]
    ELSE [prev EXCEPT !.messages.village = Append(@, ChatMessage(cp.id, content, Null, type))]

addPlayer(prev, id, isAI, role) ==
    [prev EXCEPT !.players = Append(@, Player(id, role, "alive", isAI))]

removePlayer(prev, id) ==
    [prev EXCEPT !.players = SelectSeq(@, LAMBDA p : p.id # id)]

setPlayers(prev, players) == [prev EXCEPT !.players = players]

\* mutant: the roster survives the reset
resetGameKeepPlayers(prev) == [initialGameState(prev.gameId + 1) EXCEPT !.players = prev.players]

\* {...initialGameState, gameId: uuidv4()}
resetGame(prev) == initialGameState(prev.gameId + 1)

(* ------------------- queries: channel, permission, chat ---------------- *)

\* mutant: the wolfKing is not counted among the wolves
getActiveChannelWolfOnly(g, cp) ==
    IF cp = NoPlayer THEN "village"
    ELSE IF g.phase = "day" \/ g.phase = "voting" THEN "village"
    ELSE IF g.phase = "night" /\ cp.role = "wolf" THEN "wolf"
    ELSE "village"

getActiveChannel(g, cp) ==
    IF cp = NoPlayer THEN "village"
    ELSE IF g.phase = "day" \/ g.phase = "voting" THEN "village"
    ELSE IF g.phase = "night" /\ (cp.role = "wolf" \/ cp.role = "wolfKing") THEN "wolf"
    ELSE IF cp.role = "moderator" THEN "village"
    ELSE "village"

isActionAllowed(g, playerId, actionType) ==
    IF ~HasPlayer(g.players, playerId) THEN FALSE
    ELSE LET player == FindPlayer(g.players, playerId) IN
         IF player.status = "dead" THEN FALSE
         ELSE CASE actionType = "vote" -> g.phase = "voting"
                [] actionType = "wolfKill" ->
                      g.phase = "night" /\ (player.role = "wolf" \/ player.role = "wolfKing")
                [] actionType = "seerReveal" -> g.phase = "night" /\ player.role = "seer"
                [] actionType = "witchSave" ->
                      g.phase = "night" /\ player.role = "witch" /\ g.witchPowers.hasPotion
                [] actionType = "witchKill" ->
                      g.phase = "night" /\ player.role = "witch" /\ g.witchPowers.hasPoison
                [] actionType = "hunterShoot" -> player.role = "hunter"
                [] actionType = "wolfKingKill" -> player.role = "wolfKing"
                [] actionType = "guardProtect" -> g.phase = "night" /\ player.role = "guard"
                [] OTHER -> FALSE

\* ChatBox.getVisibleMessages: the messages on screen, each named by its
\* channel and its position in it (the sort by timestamp changes no membership)
getVisibleMessages(g) ==
    LET InChannel(channel, log, types) ==
            {<<channel, i>> : i \in {j \in DOMAIN log : log[j].type \in types}}
    IN InChannel("village", g.messages.village, {"moderator", "system", "village"})
         \cup InChannel("wolf", g.messages.wolf, {"moderator", "system", "wolf"})

(* ---------------------- GameSetup: hasRequiredRoles -------------------- *)

\* roleCounts[role]
RoleCount(players, role) == Len(SelectSeq(players, LAMBDA p : p.role = role))

hasRequiredRoles(players) ==
    /\ RoleCount(players, "villager") >= 3
    /\ RoleCount(players, "wolf") >= 1
    /\ RoleCount(players, "seer") = 1
    /\ RoleCount(players, "witch") = 1
    /\ RoleCount(players, "hunter") = 1
    /\ RoleCount(players, "moderator") = 1

(* -------------------------------- the machine -------------------------- *)

\* guardedLastNight: the guardTarget processNightActions read when the most
\* recent night of this game was resolved; Null before the first night

\* what the last call was: the operation, the phase it was called in, its
\* arguments, whether it ended in a RangeError, and what a query returned
\* the second run's engine has room for one frame more
TwinStack == MaxStack + 1

\* the state g as the second run holds it: its uuidv4() draws differ
TwinOf(g) == [g EXCEPT !.gameId = @ + MaxGames + 1]

\* advancePhase() in the second run
TwinAdvance(t) ==
    IF t.phase = "gameOver" THEN resetGame(t)
    ELSE advancePhase(t, RunOn(t, TwinStack)).st

Called(op, targetId, actionType, threw, result) ==
    [op |-> op, phase |-> gameState.phase, targetId |-> targetId,
     actionType |-> actionType, threw |-> threw, result |-> result]

Call(op, targetId, actionType, threw) == Called(op, targetId, actionType, threw, Null)

Init ==
    /\ gameState = initialGameState(0)
    /\ twin = TwinOf(gameState)
    /\ currentPlayer = NoPlayer
    /\ uuid = 0
    /\ guardedLastNight = Null
    /\ lastCall = [op |-> "init", phase |-> "lobby", targetId |-> Null,
                   actionType |-> Null, threw |-> FALSE, result |-> Null]

LogOpen == Len(gameState.messages.village) < MaxLog

ChatOpen == LogOpen /\ Len(gameState.messages.wolf) < MaxLog

\* the messages of a channel that players sent
Chats(log) == SelectSeq(log, LAMBDA msg : msg.senderId # "system")

\* the turns setNextSpeaker has announced
Turns(log) == SelectSeq(log, LAMBDA msg : msg.content = "turnToSpeak")

StartOpen == Len(gameState.messages.wolf) < MaxStarts

StartGame ==
    /\ StartOpen
    /\ gameState' = startGame(gameState, gameState)
    /\ twin' = startGame(twin, twin)
    /\ lastCall' = Call("startGame", Null, Null, FALSE)
    /\ UNCHANGED <<currentPlayer, uuid, guardedLastNight>>

ResetGame ==
    /\ gameState.gameId < MaxGames
    /\ gameState' = resetGame(gameState)
    /\ twin' = resetGame(twin)
    /\ currentPlayer' = NoPlayer
    /\ guardedLastNight' = Null
    /\ lastCall' = Call("resetGame", Null, Null, FALSE)
    /\ UNCHANGED uuid

SetPlayers(players) ==
    /\ gameState' = setPlayers(gameState, players)
    /\ twin' = setPlayers(twin, players)
    /\ lastCall' = Call("setPlayers", Null, Null, FALSE)
    /\ UNCHANGED <<currentPlayer, uuid, guardedLastNight>>

AddPlayer(isAI, role) ==
    /\ uuid < MaxAdds
    /\ uuid' = uuid + 1
    /\ gameState' = addPlayer(gameState, NewId(uuid + 1), isAI, role)
    /\ twin' = addPlayer(twin, NewId(uuid + 1), isAI, role)
    /\ currentPlayer' = IF currentPlayer = NoPlayer /\ ~isAI
                        THEN Player(NewId(uuid + 1), role, "alive", isAI)
                        ELSE currentPlayer
    /\ lastCall' = Call("addPlayer", NewId(uuid + 1), Null, FALSE)
    /\ UNCHANGED guardedLastNight

RemovePlayer(id) ==
    /\ gameState' = removePlayer(gameState, id)
    /\ twin' = removePlayer(twin, id)
    /\ currentPlayer' = IF currentPlayer.id = id THEN NoPlayer ELSE currentPlayer
    /\ lastCall' = Call("removePlayer", id, Null, FALSE)
    /\ UNCHANGED <<uuid, guardedLastNight>>

SendMessage(content, type) ==
    /\ Len(Chats(IF type = "wolf" THEN gameState.messages.wolf
                 ELSE gameState.messages.village)) < MaxChat
    /\ gameState' = sendMessage(gameState, currentPlayer, content, type)
    /\ twin' = sendMessage(twin, currentPlayer, content, type)
    /\ lastCall' = Call("sendMessage", Null, type, FALSE)
    /\ UNCHANGED <<currentPlayer, uuid, guardedLastNight>>

CastVote(targetId, actionType) ==
    /\ gameState' = castVote(gameState, gameState, currentPlayer, targetId, actionType)
    /\ twin' = castVote(twin, twin, currentPlayer, targetId, actionType)
    /\ lastCall' = Call("castVote", targetId, actionType, FALSE)
    /\ UNCHANGED <<currentPlayer, uuid, guardedLastNight>>

SimulateVote(senderId, targetId, actionType) ==
    /\ gameState' = simulateVote(gameState, gameState, senderId, targetId, actionType)
    /\ twin' = simulateVote(twin, twin, senderId, targetId, actionType)
    /\ lastCall' = Call("simulateVote", targetId, actionType, FALSE)
    /\ UNCHANGED <<currentPlayer, uuid, guardedLastNight>>

\* two steps of the simulation in a row: both calls of simulateVote come from
\* the same render and read the same snapshot gameState
SimulateVoteTwice(senderId, targetId, senderId2, targetId2, actionType) ==
    /\ gameState' = simulateVote(gameState,
                                 simulateVote(gameState, gameState, senderId, targetId, actionType),
                                 senderId2, targetId2, actionType)
    /\ twin' = simulateVote(twin, simulateVote(twin, twin, senderId, targetId, actionType),
                            senderId2, targetId2, actionType)
    /\ lastCall' = Called("simulateVote twice", targetId2, actionType, FALSE,
                          <<senderId, targetId, senderId2>>)
    /\ UNCHANGED <<currentPlayer, uuid, guardedLastNight>>

SetNextSpeaker ==
    /\ Len(Turns(gameState.messages.village)) < MaxTurns
    /\ gameState' = setNextSpeaker(gameState, gameState)
    /\ twin' = setNextSpeaker(twin, twin)
    /\ lastCall' = Call("setNextSpeaker", Null, Null, FALSE)
    /\ UNCHANGED <<currentPlayer, uuid, guardedLastNight>>

AdvancePhase ==
    /\ gameState.phase = "lobby" => StartOpen
    /\ Len(gameState.messages.village) < MaxNarrations
    /\ twin' = TwinAdvance(twin)
    /\ IF gameState.phase = "gameOver"
       THEN /\ gameState.gameId < MaxGames
            /\ gameState' = resetGame(gameState)
            /\ currentPlayer' = NoPlayer
            /\ guardedLastNight' = Null
            /\ lastCall' = Call("advancePhase", Null, Null, FALSE)
       ELSE LET r == advancePhase(gameState, Run(gameState)) IN
            /\ r.st.dayCount <= MaxDay
            /\ gameState' = r.st
            /\ currentPlayer' = currentPlayer
            /\ guardedLastNight' = IF gameState.phase = "night"
                                    THEN gameState.nightActions.guardTarget
                                    ELSE guardedLastNight
            /\ lastCall' = Call("advancePhase", Null, Null, r.threw)
    /\ UNCHANGED uuid

\* the query determineWinners()
DetermineWinners ==
    /\ lastCall' = Called("determineWinners", Null, Null, FALSE,
                          determineWinners(gameState.players))
    /\ UNCHANGED <<gameState, twin, currentPlayer, uuid, guardedLastNight>>

\* the query getActiveChannel()
GetActiveChannel ==
    /\ lastCall' = Called("getActiveChannel", Null, Null, FALSE,
                          getActiveChannel(gameState, currentPlayer))
    /\ UNCHANGED <<gameState, twin, currentPlayer, uuid, guardedLastNight>>

(* ------------------------------ the inputs ----------------------------- *)

\* an AI player as GameSetup creates it
P(id, role) == Player(id, role, "alive", TRUE)

\* a four-player village: the smallest roster startGame accepts
SmallRoster == <<P("m", "moderator"), P("w", "wolf"), P("v", "villager"), P("s", "seer")>>

\* three players: startGame refuses it
TinyRoster == <<P("m", "moderator"), P("w", "wolf"), P("v", "villager")>>

\* four players, none of them the moderator
NoModeratorRoster == <<P("w", "wolf"), P("v", "villager"), P("s", "seer"), P("wi", "witch")>>

\* the smallest roster GameSetup's hasRequiredRoles accepts
FullRoster ==
    <<P("m", "moderator"), P("w", "wolf"), P("v", "villager"), P("v2", "villager"),
      P("v3", "villager"), P("s", "seer"), P("wi", "witch"), P("h", "hunter")>>

\* a village for the night: two villagers, the roles that act at night
NightRoster ==
    <<P("m", "moderator"), P("w", "wolf"), P("x", "villager"), P("y", "villager"),
      P("s", "seer"), P("g", "guard")>>

\* a village for the vote: a wolf, a villager, a seer and a hunter
VoteRoster ==
    <<P("m", "moderator"), P("w", "wolf"), P("v", "villager"), P("s", "seer"),
      P("h", "hunter")>>

\* a village with both death abilities: a wolfKing, a hunter and a wolf
ChainRoster ==
    <<P("m", "moderator"), P("k", "wolfKing"), P("h", "hunter"), P("w", "wolf"),
      P("v", "villager"), P("s", "seer")>>

\* a village whose first speaker is a villager
DayRoster == <<P("v", "villager"), P("m", "moderator"), P("w", "wolf"), P("s", "seer")>>

\* the roster of k players whose roles and statuses f lists
RosterOf(k, f) == [i \in 1..k |-> Player(NewId(i), f[i][1], f[i][2], TRUE)]

InLobby == gameState.phase = "lobby"

(* --------------------------- Spec: every operation --------------------- *)

Next ==
    \/ StartGame
    \/ ResetGame
    \/ SetPlayers(SmallRoster)
    \/ AddPlayer(FALSE, "villager")
    \/ RemovePlayer("v")
    \/ ChatOpen /\ SendMessage("hello", "village")
    \/ CastVote("w", "vote")
    \/ LogOpen /\ SetNextSpeaker
    \/ AdvancePhase

Spec == Init /\ [][Next]_vars

(* ------------------- SpecSetup: rosters and the start ------------------ *)

NextSetup ==
    \/ StartGame
    \/ ResetGame
    \/ /\ InLobby
       /\ \E players \in {FullRoster, SmallRoster, TinyRoster, NoModeratorRoster} : SetPlayers(players)
    \/ InLobby /\ \E isAI \in BOOLEAN, role \in {"villager", "moderator"} : AddPlayer(isAI, role)
    \/ InLobby /\ \E id \in {"m", "s"} : RemovePlayer(id)
    \/ InLobby /\ ChatOpen /\ SendMessage("hello", "village")
    \/ AdvancePhase

SpecSetup == Init /\ [][NextSetup]_vars

(* --------------------- SpecNight: one night's actions ------------------ *)

NextNight ==
    \/ InLobby /\ SetPlayers(NightRoster)
    \/ InLobby /\ currentPlayer = NoPlayer /\ AddPlayer(FALSE, "witch")
    \/ InLobby /\ StartGame
    \/ /\ gameState.phase = "night"
       /\ \/ \E targetId \in {"x", "y"}, actionType \in {"guardProtect", "witchKill"} :
                 CastVote(targetId, actionType)
          \/ \E actionType \in {"wolfKill", "witchSave"} : CastVote("y", actionType)
    \/ AdvancePhase

SpecNight == Init /\ [][NextNight]_vars

(* ----------------------- SpecVote: the day's ballots ------------------- *)

NextVote ==
    \/ InLobby /\ SetPlayers(VoteRoster)
    \/ InLobby /\ StartGame
    \/ /\ gameState.phase = "voting"
       /\ \/ \E senderId \in {"w", "v", "s"}, targetId \in {"w", "v", "h"} :
                 SimulateVote(senderId, targetId, "vote")
          \/ SimulateVote("h", "v", "hunterShoot")
    \/ AdvancePhase

SpecVote == Init /\ [][NextVote]_vars

(* ------------------ SpecChain: the death-ability chain ----------------- *)

\* the targets are chosen on the first night; each day may end in a lynch

NextChain ==
    \/ InLobby /\ SetPlayers(ChainRoster)
    \/ InLobby /\ AddPlayer(FALSE, "villager")
    \/ InLobby /\ StartGame
    \/ /\ gameState.phase = "night"
       /\ gameState.dayCount = 1
       /\ \/ \E targetId \in {"h", "w"} : CastVote(targetId, "wolfKingKill")
          \/ \E targetId \in {"k", "w"} : CastVote(targetId, "hunterShoot")
          \/ CastVote("h", "wolfKill")
    \/ /\ gameState.phase = "voting"
       /\ \E targetId \in {"k", "h", "v"} : CastVote(targetId, "vote")
    \/ /\ gameState.phase = "day"
       /\ Turns(gameState.messages.village) = <<>>
       /\ SetNextSpeaker
    \/ AdvancePhase

SpecChain == Init /\ [][NextChain]_vars

(* ---------------- SpecDay: the speakers and the restarts --------------- *)

NextDay ==
    \/ InLobby /\ SetPlayers(DayRoster)
    \/ InLobby /\ AddPlayer(FALSE, "witch")
    \/ InLobby /\ StartGame
    \/ gameState.phase = "night" /\ CastVote("v", "wolfKill")
    \/ gameState.phase \in {"day", "voting"} /\ SetNextSpeaker
    \/ gameState.phase = "day" /\ RemovePlayer("s")
    \/ AdvancePhase

SpecDay == Init /\ [][NextDay]_vars

(* ------------- SpecRestart: startGame in the middle of a game ---------- *)

\* one human player, who says one thing and passes the turn once
NextRestart ==
    \/ InLobby /\ SetPlayers(DayRoster)
    \/ InLobby /\ currentPlayer = NoPlayer /\ AddPlayer(FALSE, "witch")
    \/ StartGame
    \/ /\ gameState.phase = "night"
       /\ \E actionType \in {"wolfKill", "witchSave"} : CastVote("v", actionType)
    \/ /\ gameState.phase = "day"
       /\ Chats(gameState.messages.village) = <<>>
       /\ SendMessage("hello", "village")
    \/ /\ gameState.phase = "voting"
       /\ Turns(gameState.messages.village) = <<>>
       /\ SetNextSpeaker
    \/ gameState.phase # "lobby" /\ ResetGame
    \/ AdvancePhase

SpecRestart == Init /\ [][NextRestart]_vars

(* ------------- SpecChannel: the channel a player writes to ------------- *)

NextChannel ==
    \/ InLobby /\ SetPlayers(SmallRoster)
    \/ /\ InLobby
       /\ currentPlayer = NoPlayer
       /\ \E role \in {"wolf", "wolfKing", "moderator", "villager", "seer"} : AddPlayer(FALSE, role)
    \/ InLobby /\ StartGame
    \/ AdvancePhase
    \/ GetActiveChannel

SpecChannel == Init /\ [][NextChannel]_vars

(* ----------------- SpecWinners: determineWinners on any roster --------- *)

\* the lobby after setPlayers(players), for every roster of at most MaxRoster
\* players of any role and status
InitWinners ==
    /\ \E k \in 0..MaxRoster :
          \E f \in [1..k -> PlayerRole \X {"alive", "dead"}] :
              gameState = setPlayers(initialGameState(0), RosterOf(k, f))
    /\ twin = TwinOf(gameState)
    /\ currentPlayer = NoPlayer
    /\ uuid = 0
    /\ guardedLastNight = Null
    /\ lastCall = [op |-> "setPlayers", phase |-> "lobby", targetId |-> Null,
                   actionType |-> Null, threw |-> FALSE, result |-> Null]

NextWinners == DetermineWinners

SpecWinners == InitWinners /\ [][NextWinners]_vars

(* ------------- SpecSpeaker: setNextSpeaker on every small roster ------- *)

\* every roster of up to MaxRoster players, any role and status; the turn is
\* nobody's or the first player's
InitSpeaker ==
    /\ \E k \in 0..MaxRoster :
          \E f \in [1..k -> PlayerRole \X {"alive", "dead"}] :
              \E speakingPlayerId \in {Null, NewId(1)} :
                  gameState = [setPlayers(initialGameState(0), RosterOf(k, f))
                                  EXCEPT !.speakingPlayerId = speakingPlayerId]
    /\ twin = TwinOf(gameState)
    /\ currentPlayer = NoPlayer
    /\ uuid = 0
    /\ guardedLastNight = Null
    /\ lastCall = [op |-> "setPlayers", phase |-> "lobby", targetId |-> Null,
                   actionType |-> Null, threw |-> FALSE, result |-> Null]

NextSpeaker == SetNextSpeaker

SpecSpeaker == InitSpeaker /\ [][NextSpeaker]_vars

(* ------------- SpecBatch: two ballots from the same snapshot ----------- *)

NextBatch ==
    \/ InLobby /\ SetPlayers(VoteRoster)
    \/ InLobby /\ StartGame
    \/ /\ gameState.phase = "voting"
       /\ \E senderId \in {"w", "v"}, senderId2 \in {"v", "s"}, targetId \in {"w", "v"} :
              SimulateVoteTwice(senderId, targetId, senderId2, "w", "vote")
    \/ AdvancePhase

SpecBatch == Init /\ [][NextBatch]_vars

(* ------------------ SpecResolve: the first night's resolution ---------- *)

\* the targetIds a night action is cast with: a villager, another villager,
\* an id that is in no roster, or no call at all (Null)
ResolveTargets == {Null, "x", "y", "ghost"}

\* the lobby fills with NightRoster and a human witch, then startGame()
ResolveStart ==
    LET s0 == addPlayer(setPlayers(initialGameState(0), NightRoster), NewId(1), FALSE, "witch")
    IN startGame(s0, s0)

\* castVote(targetId, actionType) by cp, or no call when targetId is Null
CastOrSkip(st, cp, targetId, actionType) ==
    IF targetId = Null THEN st ELSE castVote(st, st, cp, targetId, actionType)

\* the first night after its castVote calls
InitResolve ==
    /\ currentPlayer = Player(NewId(1), "witch", "alive", FALSE)
    /\ \E wolfKill \in ResolveTargets, guardTarget \in ResolveTargets,
          witchSave \in ResolveTargets, witchKill \in ResolveTargets :
          gameState =
            CastOrSkip(
              CastOrSkip(
                CastOrSkip(
                  CastOrSkip(ResolveStart, currentPlayer, wolfKill, "wolfKill"),
                  currentPlayer, guardTarget, "guardProtect"),
                currentPlayer, witchSave, "witchSave"),
              currentPlayer, witchKill, "witchKill")
    /\ twin = TwinOf(gameState)
    /\ uuid = 1
    /\ guardedLastNight = Null
    /\ lastCall = [op |-> "castVote", phase |-> "night", targetId |-> Null,
                   actionType |-> Null, threw |-> FALSE, result |-> Null]

NextResolve == AdvancePhase

SpecResolve == InitResolve /\ [][NextResolve]_vars

(* ------------------- SpecSeer: nights with a seer's reveal ------------- *)

\* the first night after its castVote calls: the wolves and the witch may
\* kill a villager or the seer, the seer may examine the wolf, a villager or
\* an id that is in no roster
InitSeer ==
    /\ currentPlayer = Player(NewId(1), "witch", "alive", FALSE)
    /\ \E wolfKill \in {Null, "x", "s"}, witchKill \in {Null, "y", "s"},
          seerReveal \in {Null, "w", "x", "ghost"} :
          gameState =
            CastOrSkip(
              CastOrSkip(
                CastOrSkip(ResolveStart, currentPlayer, wolfKill, "wolfKill"),
                currentPlayer, witchKill, "witchKill"),
              currentPlayer, seerReveal, "seerReveal")
    /\ twin = TwinOf(gameState)
    /\ uuid = 1
    /\ guardedLastNight = Null
    /\ lastCall = [op |-> "castVote", phase |-> "night", targetId |-> Null,
                   actionType |-> Null, threw |-> FALSE, result |-> Null]

NextSeer == AdvancePhase

SpecSeer == InitSeer /\ [][NextSeer]_vars

(* --------------- SpecGhost: targets that name no player ---------------- *)

\* the lobby fills with ChainRoster and a human villager, then startGame()
GhostStart ==
    LET s0 == addPlayer(setPlayers(initialGameState(0), ChainRoster), NewId(1), FALSE, "villager")
    IN startGame(s0, s0)

\* the first night after its castVote calls; "ghost" is the id of no player
InitGhost ==
    /\ currentPlayer = Player(NewId(1), "villager", "alive", FALSE)
    /\ \E wolfKill \in {Null, "h", "k", "ghost"}, witchKill \in {Null, "v", "ghost"},
          hunterTarget \in {Null, "w", "ghost"}, wolfKingTarget \in {Null, "v", "ghost"} :
          gameState =
            CastOrSkip(
              CastOrSkip(
                CastOrSkip(
                  CastOrSkip(GhostStart, currentPlayer, wolfKill, "wolfKill"),
                  currentPlayer, witchKill, "witchKill"),
                currentPlayer, hunterTarget, "hunterShoot"),
              currentPlayer, wolfKingTarget, "wolfKingKill")
    /\ twin = TwinOf(gameState)
    /\ uuid = 1
    /\ guardedLastNight = Null
    /\ lastCall = [op |-> "castVote", phase |-> "night", targetId |-> Null,
                   actionType |-> Null, threw |-> FALSE, result |-> Null]

NextGhost ==
    \/ /\ gameState.phase = "voting"
       /\ gameState.dayCount = 1
       /\ \E targetId \in {"h", "k", "ghost"} : CastVote(targetId, "vote")
    \/ AdvancePhase

SpecGhost == InitGhost /\ [][NextGhost]_vars

(* ------------- SpecModerator: actions that name the moderator ---------- *)

NextModerator ==
    \/ InLobby /\ SetPlayers(SmallRoster)
    \/ InLobby /\ currentPlayer = NoPlayer /\ AddPlayer(FALSE, "wolf")
    \/ InLobby /\ StartGame
    \/ /\ gameState.phase = "night"
       /\ \E targetId \in {"m", "v"}, actionType \in {"wolfKill", "witchKill"} :
              CastVote(targetId, actionType)
    \/ /\ gameState.phase = "voting"
       /\ \E targetId \in {"m", "w"} : CastVote(targetId, "vote")
    \/ AdvancePhase

SpecModerator == Init /\ [][NextModerator]_vars

(* ================================ claims =============================== *)

HasModerator(players) == \E i \in DOMAIN players : players[i].role = "moderator"

\* s is t with exactly one message appended, sent by the system
OneNarrationAppended(s, t) ==
    /\ Len(t) = Len(s) + 1
    /\ SubSeq(t, 1, Len(s)) = s
    /\ t[Len(t)].senderId = "system"

\* C1: startGame() called in the lobby on a roster that meets the role-count
\* minimums succeeds: afterwards the phase is night, dayCount is 1, both witch
\* powers are charged, and exactly one narration was appended to the village
\* channel and one to the wolf channel.
C1_StartSucceeds ==
    [][(/\ lastCall'.op = "startGame"
        /\ gameState.phase = "lobby"
        /\ hasRequiredRoles(gameState.players))
       => /\ gameState'.phase = "night"
          /\ gameState'.dayCount = 1
          /\ gameState'.witchPowers = [hasPotion |-> TRUE, hasPoison |-> TRUE]
          /\ OneNarrationAppended(gameState.messages.village, gameState'.messages.village)
          /\ OneNarrationAppended(gameState.messages.wolf, gameState'.messages.wolf)
          /\ gameState'.players = gameState.players]_vars

C1_Witness ==
    /\ lastCall.op = "startGame"
    /\ lastCall.phase = "lobby"
    /\ hasRequiredRoles(gameState.players)
    /\ gameState.phase = "night"
    /\ gameState.dayCount = 1

\* C2: startGame() on a roster of fewer than 4 players, or with no moderator,
\* changes nothing: phase, dayCount, witchPowers, messages and players are as
\* before the call.
C2_StartRefused ==
    [][(/\ lastCall'.op = "startGame"
        /\ (Len(gameState.players) < 4 \/ ~HasModerator(gameState.players)))
       => /\ gameState'.phase = gameState.phase
          /\ gameState'.dayCount = gameState.dayCount
          /\ gameState'.witchPowers = gameState.witchPowers
          /\ gameState'.messages = gameState.messages
          /\ gameState'.players = gameState.players]_vars

C2_Witness ==
    /\ lastCall.op = "startGame"
    /\ lastCall.phase = "lobby"
    /\ gameState.phase = "lobby"
    /\ Len(gameState.players) >= 4
    /\ ~HasModerator(gameState.players)

\* C3: startGame() never leaves the lobby when the required-role counts are
\* unmet: on a roster of at least 4 players with a moderator that violates one
\* of the role counts the call fails and the phase stays lobby.
C3_RoleCountsEnforced ==
    [][(/\ lastCall'.op = "startGame"
        /\ gameState.phase = "lobby"
        /\ Len(gameState.players) >= 4
        /\ HasModerator(gameState.players)
        /\ ~hasRequiredRoles(gameState.players))
       => gameState'.phase = "lobby"]_vars

\* the phase changes the game may make
PhaseChanges ==
    {<<"lobby", "night">>, <<"night", "day">>, <<"night", "gameOver">>,
     <<"day", "voting">>, <<"voting", "night">>, <<"voting", "gameOver">>}

\* the step is a reset to a fresh lobby
IsReset ==
    gameState' = initialGameState(gameState'.gameId) /\ gameState'.gameId # gameState.gameId

\* C4: across any sequence of public operations every change of phase is one
\* of lobby->night, night->day, night->gameOver, day->voting, voting->night,
\* voting->gameOver, or a reset to a fresh lobby; the phase results is never
\* reached and gameOver is left only by a reset.
C4_PhaseTransitions ==
    [][/\ gameState'.phase # "results"
       /\ gameState'.phase # gameState.phase
            => (<<gameState.phase, gameState'.phase>> \in PhaseChanges \/ IsReset)]_vars

\* C5: advancePhase() in phase voting evaluates the win on the roster as it is
\* after the lynch and its death-ability chain: it ends in gameOver with
\* winners = W exactly when determineWinners of that roster is a non-null W,
\* and in night otherwise.
C5_WinAfterLynch ==
    (lastCall.op = "advancePhase" /\ lastCall.phase = "voting" /\ ~lastCall.threw)
    => LET W == determineWinners(gameState.players) IN
       IF W # Null THEN gameState.phase = "gameOver" /\ gameState.winners = W
       ELSE gameState.phase = "night" /\ gameState.winners = Null

\* C6: when advancePhase() is called in phase night and the roster after the
\* night's resolution satisfies a win condition, afterwards the phase is
\* gameOver, not day, and winners is that winner.
C6_NightWinIsTerminal ==
    (/\ lastCall.op = "advancePhase"
     /\ lastCall.phase = "night"
     /\ ~lastCall.threw
     /\ determineWinners(gameState.players) # Null)
    => /\ gameState.phase = "gameOver"
       /\ gameState.winners = determineWinners(gameState.players)

\* the number of living players whose role is in roles
Living(players, roles) ==
    Cardinality({i \in DOMAIN players :
                    players[i].status = "alive" /\ players[i].role \in roles})

\* C7: determineWinners returns 'wolf' if no plain villager is alive or no
\* special role (seer, witch, hunter, guard) is alive; otherwise 'villager' if
\* no wolf or wolfKing is alive; otherwise null.  The moderator counts in no
\* group and the wolf rule comes first.
C7_WinRule ==
    lastCall.op = "determineWinners"
    => lastCall.result =
         IF \/ Living(gameState.players, {"villager"}) = 0
            \/ Living(gameState.players, {"seer", "witch", "hunter", "guard"}) = 0
         THEN "wolf"
         ELSE IF Living(gameState.players, {"wolf", "wolfKing"}) = 0 THEN "villager"
         ELSE Null

\* the wolf rule applied with no wolf alive, the moderator the only other survivor
C7_Witness ==
    /\ lastCall.op = "determineWinners"
    /\ lastCall.result = "wolf"
    /\ Living(gameState.players, {"wolf", "wolfKing"}) = 0
    /\ Living(gameState.players, {"villager"}) > 0
    /\ Living(gameState.players, {"moderator"}) > 0

\* the ballots of type 'vote' cast for targetId
Ballots(votes, targetId) ==
    Cardinality({i \in DOMAIN votes :
                    votes[i].actionType = "vote" /\ votes[i].targetId = targetId})

\* the targets with at least one ballot that no other target beats
Leaders(votes) ==
    {t \in {votes[i].targetId : i \in DOMAIN votes} :
        /\ Ballots(votes, t) > 0
        /\ \A i \in DOMAIN votes : Ballots(votes, votes[i].targetId) <= Ballots(votes, t)}

StatusOf(players, id) == FindPlayer(players, id).status

\* C8: at the end of voting, counting only the ballots of type 'vote', the
\* one target with strictly more ballots than every other is the player whose
\* status becomes dead (with it only the targets of a death ability); with no
\* such ballot or with a tie at the maximum no status changes.
C8_VoteTally ==
    [][(lastCall'.op = "advancePhase" /\ gameState.phase = "voting")
       => LET top == Leaders(gameState.votes) IN
          IF Cardinality(top) = 1
          THEN LET T == CHOOSE t \in top : TRUE IN
               HasPlayer(gameState.players, T)
               => /\ StatusOf(gameState'.players, T) = "dead"
                  /\ \A i \in DOMAIN gameState.players :
                        gameState'.players[i] # gameState.players[i]
                        => gameState.players[i].id \in
                             {T, gameState.nightActions.hunterTarget,
                              gameState.nightActions.wolfKingTarget}
          ELSE gameState'.players = gameState.players]_vars

\* a lynch decided two ballots to one
C8_Witness ==
    /\ lastCall.op = "advancePhase"
    /\ lastCall.phase = "voting"
    /\ gameState.phase = "gameOver"
    /\ \E t \in {"w", "v", "h"} :
          /\ Ballots(gameState.votes, t) = 2
          /\ Cardinality({i \in DOMAIN gameState.votes : gameState.votes[i].actionType = "vote"}) = 3
          /\ StatusOf(gameState.players, t) = "dead"

\* the contents of the narrations a step appends to the village channel
Narrated ==
    {gameState'.messages.village[i].content :
        i \in (Len(gameState.messages.village) + 1)..Len(gameState'.messages.village)}

\* C9: when wolfKill, guardTarget and witchSave all name X, X is not killed by
\* the wolves and the attack is narrated as 'protected' only, neither as
\* 'saved' nor as 'killed by the werewolves'.
C9_GuardBeforeWitch ==
    [][(/\ lastCall'.op = "advancePhase"
        /\ gameState.phase = "night"
        /\ gameState.nightActions.wolfKill # Null
        /\ gameState.nightActions.guardTarget = gameState.nightActions.wolfKill
        /\ gameState.nightActions.witchSave = gameState.nightActions.wolfKill)
       => /\ "attackProtected" \in Narrated
          /\ "attackSaved" \notin Narrated
          /\ "killedByWolves" \notin Narrated
          /\ \A i \in DOMAIN gameState.players :
                (/\ gameState.players[i].id = gameState.nightActions.wolfKill
                 /\ gameState.players[i].id \notin
                      {gameState.nightActions.witchKill, gameState.nightActions.hunterTarget,
                       gameState.nightActions.wolfKingTarget})
                => gameState'.players[i] = gameState.players[i]]_vars

C9_Witness ==
    /\ lastCall.op = "advancePhase"
    /\ lastCall.phase = "night"
    /\ gameState.phase = "day"
    /\ gameState.nightActions.wolfKill = "y"
    /\ gameState.nightActions.guardTarget = "y"
    /\ gameState.nightActions.witchSave = "y"
    /\ gameState.nightActions.witchKill = Null
    /\ StatusOf(gameState.players, "y") = "alive"

\* C10: after advancePhase() resolves a night in which witchKill names a
\* player Y of the roster, Y is dead, whatever guardTarget, witchSave and
\* wolfKill are.
C10_PoisonUnconditional ==
    (/\ lastCall.op = "advancePhase"
     /\ lastCall.phase = "night"
     /\ ~lastCall.threw
     /\ gameState.nightActions.witchKill # Null
     /\ HasPlayer(gameState.players, gameState.nightActions.witchKill))
    => StatusOf(gameState.players, gameState.nightActions.witchKill) = "dead"

\* the poisoned player was also the one the guard protected and the witch saved
C10_Witness ==
    /\ lastCall.op = "advancePhase"
    /\ lastCall.phase = "night"
    /\ gameState.nightActions.witchKill = "y"
    /\ gameState.nightActions.guardTarget = "y"
    /\ gameState.nightActions.witchSave = "y"
    /\ gameState.nightActions.wolfKill = "y"
    /\ StatusOf(gameState.players, "y") = "dead"

\* the role of the player called id, Null when the roster has none
RoleOf(players, id) == IF HasPlayer(players, id) THEN FindPlayer(players, id).role ELSE Null

\* C11: when the day vote eliminates a wolfKing while wolfKingTarget names a
\* hunter H and hunterTarget names a wolf W, after that advancePhase() the
\* wolfKing, H and W are all dead.
C11_DeathChain ==
    [][(/\ lastCall'.op = "advancePhase"
        /\ gameState.phase = "voting"
        /\ \E K \in {gameState.players[i].id : i \in DOMAIN gameState.players} :
               /\ Leaders(gameState.votes) = {K}
               /\ RoleOf(gameState.players, K) = "wolfKing"
        /\ RoleOf(gameState.players, gameState.nightActions.wolfKingTarget) = "hunter"
        /\ RoleOf(gameState.players, gameState.nightActions.hunterTarget) = "wolf")
       => /\ \A K \in Leaders(gameState.votes) : StatusOf(gameState'.players, K) = "dead"
          /\ StatusOf(gameState'.players, gameState.nightActions.wolfKingTarget) = "dead"
          /\ StatusOf(gameState'.players, gameState.nightActions.hunterTarget) = "dead"]_vars

\* the narration of the chain: the lynch of k, the drag of h, the shot at w
C11_Witness ==
    /\ lastCall.op = "advancePhase"
    /\ lastCall.phase = "voting"
    /\ StatusOf(gameState.players, "k") = "dead"
    /\ StatusOf(gameState.players, "h") = "dead"
    /\ StatusOf(gameState.players, "w") = "dead"
    /\ \E i \in DOMAIN gameState.messages.village :
          /\ i + 4 \in DOMAIN gameState.messages.village
          /\ gameState.messages.village[i].content = "lynched"
          /\ gameState.messages.village[i].about = "k"
          /\ gameState.messages.village[i + 2].content = "wolfKingDrags"
          /\ gameState.messages.village[i + 2].about = "h"
          /\ gameState.messages.village[i + 4].content = "hunterShoots"
          /\ gameState.messages.village[i + 4].about = "w"

\* C12: the resolution of the death abilities always terminates: also when
\* hunterTarget is the wolfKing and wolfKingTarget is the hunter, advancePhase()
\* completes.
C12_ChainTerminates == lastCall.op = "advancePhase" => ~lastCall.threw

\* C13: a guardProtect castVote during night whose targetId equals
\* nightActions.lastGuardTarget is rejected: guardTarget and lastGuardTarget
\* are after the call what they were before it.
C13_RepeatRejected ==
    [][(/\ lastCall'.op = "castVote"
        /\ lastCall'.actionType = "guardProtect"
        /\ gameState.phase = "night"
        /\ lastCall'.targetId = gameState.nightActions.lastGuardTarget)
       => /\ gameState'.nightActions.guardTarget = gameState.nightActions.guardTarget
          /\ gameState'.nightActions.lastGuardTarget = gameState.nightActions.lastGuardTarget]_vars

\* on the second night the guard asked for the player guarded on the first
\* and was refused: the ballot is there, guardTarget is still null
C13_Witness ==
    /\ lastCall.op = "castVote"
    /\ lastCall.actionType = "guardProtect"
    /\ lastCall.phase = "night"
    /\ gameState.dayCount = 2
    /\ guardedLastNight = "x"
    /\ lastCall.targetId = "x"
    /\ gameState.nightActions.lastGuardTarget = "x"
    /\ gameState.nightActions.guardTarget = Null
    /\ \E i \in DOMAIN gameState.votes :
          gameState.votes[i] = VoteAction(currentPlayer.id, "x", "guardProtect")

\* C14: no consecutive protection: if guardTarget was X (non-null) when a night
\* was resolved, guardTarget is not X when the next night of the game is
\* resolved, however many guardProtect votes are cast in between.
C14_NoConsecutiveProtection ==
    [][(/\ lastCall'.op = "advancePhase"
        /\ gameState.phase = "night"
        /\ guardedLastNight # Null)
       => gameState.nightActions.guardTarget # guardedLastNight]_vars

\* C15: during a night, nightActions.lastGuardTarget is the guardTarget that
\* was in force when the preceding night was resolved, null when the guard did
\* not act on it or when there was no preceding night; the actions of the
\* current night do not change it.
C15_LastGuardTargetIsLastNights ==
    gameState.phase = "night" => gameState.nightActions.lastGuardTarget = guardedLastNight

\* the operations of the game engine
EngineOps == {"startGame", "advancePhase", "castVote", "sendMessage", "setNextSpeaker"}

\* C16: within one game no engine operation (startGame, advancePhase,
\* castVote, sendMessage, setNextSpeaker) changes a player's status from dead
\* to alive: a player that is dead stays in the roster, dead, until a reset.
C16_StatusMonotone ==
    [][(lastCall'.op \in EngineOps /\ ~IsReset)
       => \A i \in DOMAIN gameState.players :
             gameState.players[i].status = "dead"
             => /\ i \in DOMAIN gameState'.players
                /\ gameState'.players[i] = gameState.players[i]]_vars

\* the game was started again during the day, after v had died in the night
C16_Witness ==
    /\ lastCall.op = "startGame"
    /\ lastCall.phase = "day"
    /\ gameState.phase = "night"
    /\ gameState.dayCount = 1
    /\ Len(gameState.messages.wolf) >= 2
    /\ HasPlayer(gameState.players, "v")
    /\ StatusOf(gameState.players, "v") = "dead"

\* C17: witch powers are monotone within a game: from a successful start to
\* the next reset, a power that is false stays false under every public
\* operation.
C17_WitchPowersMonotone ==
    [][(gameState.phase # "lobby" /\ ~IsReset)
       => /\ ~gameState.witchPowers.hasPotion => ~gameState'.witchPowers.hasPotion
          /\ ~gameState.witchPowers.hasPoison => ~gameState'.witchPowers.hasPoison]_vars

\* C18: the votes list never holds two entries with the same voterId and
\* actionType: a castVote by a voter who has a ballot of that type replaces it.
C18_OneBallotPerVoterAndType ==
    \A i, j \in DOMAIN gameState.votes :
        (/\ gameState.votes[i].voterId = gameState.votes[j].voterId
         /\ gameState.votes[i].actionType = gameState.votes[j].actionType)
        => i = j

\* the voter holds ballots of three types, the one just cast last in the list
C18_Witness ==
    /\ lastCall.op = "castVote"
    /\ Len(gameState.votes) = 3
    /\ \A i \in DOMAIN gameState.votes : gameState.votes[i].voterId = currentPlayer.id
    /\ gameState.votes[3] = VoteAction(currentPlayer.id, lastCall.targetId, lastCall.actionType)

\* the living players that are not the moderator, in roster order
LivingSpeakers(players) ==
    SelectSeq(players, LAMBDA p : p.status = "alive" /\ p.role # "moderator")

\* the positions of the player called id in the list s
PositionsOf(s, id) == {i \in DOMAIN s : s[i].id = id}

\* C19: setNextSpeaker() makes speakingPlayerId the player after the current
\* speaker in the list of living players that are not the moderator, the
\* first after the last; when the current speaker is not in the list (null,
\* dead or removed) the new speaker is the first of the list.
C19_NextSpeaker ==
    [][(lastCall'.op = "setNextSpeaker" /\ LivingSpeakers(gameState.players) # <<>>)
       => LET L == LivingSpeakers(gameState.players)
              at == PositionsOf(L, gameState.speakingPlayerId)
          IN IF at = {} THEN gameState'.speakingPlayerId = L[1].id
             ELSE \A i \in at :
                     gameState'.speakingPlayerId = L[IF i = Len(L) THEN 1 ELSE i + 1].id]_vars

\* the day began with the dead v as speaker; the turn went to w, the first of
\* the living, then round the three of them and from the last back to w
C19_Witness ==
    /\ lastCall.op = "setNextSpeaker"
    /\ Len(LivingSpeakers(gameState.players)) = 3
    /\ StatusOf(gameState.players, "v") = "dead"
    /\ gameState.speakingPlayerId = LivingSpeakers(gameState.players)[1].id
    /\ LET log == gameState.messages.village
           n == Len(log)
       IN /\ n >= 5
          /\ log[n - 4].content = "pleaseShare" /\ log[n - 4].about = "v"
          /\ \A k \in 0..3 : log[n - k].content = "turnToSpeak"
          /\ log[n - 3].about = LivingSpeakers(gameState.players)[1].id
          /\ log[n - 1].about = LivingSpeakers(gameState.players)[3].id
          /\ log[n].about = LivingSpeakers(gameState.players)[1].id

\* C20: after advancePhase() from night to day, speakingPlayerId is the first
\* player in roster order who is alive after the night's resolution and is not
\* the moderator, null when there is none: a player killed that night is never
\* chosen.
C20_FirstSpeakerIsAlive ==
    (lastCall.op = "advancePhase" /\ lastCall.phase = "night" /\ ~lastCall.threw)
    => gameState.speakingPlayerId =
         IF LivingSpeakers(gameState.players) = <<>> THEN Null
         ELSE LivingSpeakers(gameState.players)[1].id

\* C21: getActiveChannel returns 'wolf' exactly when the phase is night and
\* the acting player's role is wolf or wolfKing; in every other case (another
\* phase, another role, the moderator, no acting player) it returns 'village'.
C21_ActiveChannel ==
    lastCall.op = "getActiveChannel"
    => lastCall.result =
         IF gameState.phase = "night" /\ currentPlayer.role \in {"wolf", "wolfKing"}
         THEN "wolf" ELSE "village"

\* the wolfKing at night
C21_Witness ==
    /\ lastCall.op = "getActiveChannel"
    /\ gameState.phase = "night"
    /\ currentPlayer.role = "wolfKing"
    /\ lastCall.result = "wolf"

\* the living players whose role is not wolf, wolfKing or moderator
Outsiders(players) ==
    {i \in DOMAIN players :
        /\ players[i].status = "alive"
        /\ players[i].role \notin {"wolf", "wolfKing", "moderator"}}

\* C22: wolf-channel confidentiality: in every reachable state, the messages
\* visible to a living viewer whose role is not wolf, wolfKing or moderator
\* include no message stored in messages.wolf.
C22_WolfChannelConfidential ==
    Outsiders(gameState.players) # {}
    => \A m \in getVisibleMessages(gameState) : m[1] # "wolf"

\* C23: an action that is not permitted is rejected at the mutation boundary:
\* when isActionAllowed(actingPlayer, actionType) is false, castVote(targetId,
\* actionType) leaves votes, nightActions and witchPowers unchanged.
C23_DisallowedActionRejected ==
    [][(/\ lastCall'.op = "castVote"
        /\ currentPlayer # NoPlayer
        /\ ~isActionAllowed(gameState, currentPlayer.id, lastCall'.actionType))
       => /\ gameState'.votes = gameState.votes
          /\ gameState'.nightActions = gameState.nightActions
          /\ gameState'.witchPowers = gameState.witchPowers]_vars

\* C24: players are never deleted once the game has started: in a phase other
\* than lobby removePlayer(id) leaves the roster unchanged.
C24_NoRemovalAfterStart ==
    [][(lastCall'.op = "removePlayer" /\ gameState.phase # "lobby")
       => gameState'.players = gameState.players]_vars

C26_ResetIsFresh ==
    [][(\/ lastCall'.op = "resetGame"
        \/ lastCall'.op = "advancePhase" /\ gameState.phase = "gameOver")
       => /\ gameState'.phase = "lobby"
          /\ gameState'.players = <<>>
          /\ gameState'.messages = [village |-> <<>>, wolf |-> <<>>]
          /\ gameState'.votes = <<>>
          /\ gameState'.dayCount = 0
          /\ \A slot \in DOMAIN gameState'.nightActions : gameState'.nightActions[slot] = Null
          /\ gameState'.witchPowers = [hasPotion |-> TRUE, hasPoison |-> TRUE]
          /\ gameState'.speakingPlayerId = Null
          /\ gameState'.winners = Null
          /\ gameState'.gameId # gameState.gameId
          /\ currentPlayer' = NoPlayer]_vars

\* a finished game was advanced into the lobby of the next one
C26_Witness ==
    /\ lastCall.op = "advancePhase"
    /\ lastCall.phase = "gameOver"
    /\ gameState.phase = "lobby"
    /\ gameState.gameId = 1
    /\ gameState.players = <<>>

C28_RejectedGuardKeepsVotes ==
    [][(/\ lastCall'.op = "castVote"
        /\ lastCall'.actionType = "guardProtect"
        /\ gameState.phase = "night"
        /\ lastCall'.targetId = gameState.nightActions.lastGuardTarget)
       => {gameState'.votes[i] : i \in DOMAIN gameState'.votes}
            = {gameState.votes[i] : i \in DOMAIN gameState.votes}]_vars

\* C29: when advancePhase() in phase voting finds no winner, afterwards the
\* phase is night, dayCount is one more, votes is empty, lastGuardTarget is the
\* previous guardTarget, every other nightActions slot is null and witchPowers
\* is unchanged.
C29_NewNight ==
    [][(/\ lastCall'.op = "advancePhase"
        /\ gameState.phase = "voting"
        /\ ~lastCall'.threw
        /\ gameState'.phase # "gameOver")
       => /\ gameState'.phase = "night"
          /\ gameState'.dayCount = gameState.dayCount + 1
          /\ gameState'.votes = <<>>
          /\ gameState'.nightActions.lastGuardTarget = gameState.nightActions.guardTarget
          /\ \A slot \in DOMAIN gameState'.nightActions \ {"lastGuardTarget"} :
                gameState'.nightActions[slot] = Null
          /\ gameState'.witchPowers = gameState.witchPowers]_vars

\* the second night began: x was guarded on the first, the potion is spent
C29_Witness ==
    /\ lastCall.op = "advancePhase"
    /\ lastCall.phase = "voting"
    /\ gameState.phase = "night"
    /\ gameState.dayCount = 2
    /\ guardedLastNight = "x"
    /\ gameState.nightActions.lastGuardTarget = "x"
    /\ gameState.nightActions.guardTarget = Null
    /\ ~gameState.witchPowers.hasPotion

\* C30: the votes list is empty right after every advancePhase() that starts
\* a new decision round: after night->day, after day->voting and after
\* voting->night; a ballot cast before the voting phase began is not counted
\* in its tally.
C30_VotesClearedEachRound ==
    (/\ lastCall.op = "advancePhase"
     /\ ~lastCall.threw
     /\ <<lastCall.phase, gameState.phase>> \in
           {<<"night", "day">>, <<"day", "voting">>, <<"voting", "night">>})
    => gameState.votes = <<>>

\* C31: two castVote calls by different voters issued one directly after the
\* other are both applied: afterwards votes holds the ballot of the first
\* voter and the ballot of the second.
C31_BothBallotsKept ==
    (/\ lastCall.op = "simulateVote twice"
     /\ lastCall.result[1] # lastCall.result[3])
    => /\ VoteAction(lastCall.result[1], lastCall.result[2], lastCall.actionType)
            \in {gameState.votes[i] : i \in DOMAIN gameState.votes}
       /\ VoteAction(lastCall.result[3], lastCall.targetId, lastCall.actionType)
            \in {gameState.votes[i] : i \in DOMAIN gameState.votes}

\* C32: setNextSpeaker() is a no-op when no living player other than the
\* moderator exists: speakingPlayerId and both message channels are unchanged
\* and the call completes without error.
C32_NobodyToSpeak ==
    [][(lastCall'.op = "setNextSpeaker" /\ LivingSpeakers(gameState.players) = <<>>)
       => /\ gameState'.speakingPlayerId = gameState.speakingPlayerId
          /\ gameState'.messages = gameState.messages
          /\ ~lastCall'.threw]_vars

\* setNextSpeaker() was called on a roster of a dead villager and the
\* moderator while the turn was the dead villager's
C32_Witness ==
    /\ lastCall.op = "setNextSpeaker"
    /\ Len(gameState.players) = 2
    /\ gameState.players[1].role = "villager"
    /\ gameState.players[1].status = "dead"
    /\ gameState.players[2].role = "moderator"
    /\ gameState.speakingPlayerId = NewId(1)
    /\ gameState.messages.village = <<>>

\* the state advancePhase() produces from g when no seerReveal was recorded
WithoutReveal(g) ==
    LET g0 == [g EXCEPT !.nightActions.seerReveal = Null] IN advancePhase(g0, Run(g0)).st

\* C33: the seer's reveal is advisory only: resolving a night with seerReveal
\* set and resolving it with seerReveal null give the same player statuses,
\* the same phase, the same winners and the same village channel; the wolf
\* channel differs by the one message of the finding, appended at its end
\* when the reveal names a player of the roster and a seer is alive.
C33_RevealIsAdvisory ==
    [][(lastCall'.op = "advancePhase" /\ gameState.phase = "night")
       => LET other == WithoutReveal(gameState)
              targetId == gameState.nightActions.seerReveal
              found == /\ targetId # Null
                       /\ HasPlayer(gameState.players, targetId)
                       /\ Living(gameState.players, {"seer"}) > 0
                       /\ ~lastCall'.threw
              wolf == gameState'.messages.wolf
          IN /\ gameState'.players = other.players
             /\ gameState'.phase = other.phase
             /\ gameState'.winners = other.winners
             /\ gameState'.messages.village = other.messages.village
             /\ IF found
                THEN /\ Len(wolf) = Len(other.messages.wolf) + 1
                     /\ SubSeq(wolf, 1, Len(wolf) - 1) = other.messages.wolf
                     /\ wolf[Len(wolf)].about = targetId
                     /\ wolf[Len(wolf)].type = "system"
                ELSE wolf = other.messages.wolf]_vars

\* the night in which the seer examined the wolf and was killed was resolved
C33_Witness ==
    /\ lastCall.op = "advancePhase"
    /\ lastCall.phase = "night"
    /\ gameState.phase = "day"
    /\ gameState.dayCount = 1
    /\ gameState.nightActions.seerReveal = "w"
    /\ StatusOf(gameState.players, "s") = "dead"
    /\ Len(gameState.messages.wolf) = 2
    /\ gameState.messages.wolf[2].content = "seerAreWolf"
    /\ gameState.messages.wolf[2].about = "w"

\* s is a prefix of t
IsPrefix(s, t) == Len(s) <= Len(t) /\ SubSeq(t, 1, Len(s)) = s

\* C34: messages are append-only within a game: for every operation other
\* than a reset, each channel's list before the operation is a prefix of the
\* channel's list after it.
C34_MessagesAppendOnly ==
    [][(/\ lastCall'.op # "resetGame"
        /\ ~(lastCall'.op = "advancePhase" /\ gameState.phase = "gameOver"))
       => /\ IsPrefix(gameState.messages.village, gameState'.messages.village)
          /\ IsPrefix(gameState.messages.wolf, gameState'.messages.wolf)]_vars

\* a player's message was appended after the narration of a night and a dawn
C34_Witness ==
    /\ lastCall.op = "sendMessage"
    /\ gameState.phase = "day"
    /\ Len(gameState.messages.village) >= 4
    /\ gameState.messages.village[1].content = "gameBegun"
    /\ gameState.messages.village[Len(gameState.messages.village)].senderId = NewId(1)
    /\ gameState.messages.wolf # <<>>

\* id, or Null when id names no player of the roster
Known(players, id) == IF HasPlayer(players, id) THEN id ELSE Null

\* g with every target of the night that names no player taken out
WithoutGhosts(g) ==
    [g EXCEPT !.nightActions.wolfKill = Known(g.players, @),
              !.nightActions.witchKill = Known(g.players, @),
              !.nightActions.hunterTarget = Known(g.players, @),
              !.nightActions.wolfKingTarget = Known(g.players, @)]

AbilityNarrations == {"hunterFinalShot", "hunterShoots", "wolfKingHowls", "wolfKingDrags"}

\* C35: a night action or a lynch whose target names no player of the roster
\* is a no-op for that step: the night resolves as if the target had not been
\* chosen (same statuses, same narration, same phase, same outcome of the
\* call), a lynch of such a target changes no status and fires no death
\* ability, and advancePhase() still completes its transition.
C35_UnknownTargetIsNoOp ==
    [][(lastCall'.op = "advancePhase")
       => /\ gameState.phase = "night"
             => LET g0 == WithoutGhosts(gameState)
                    o == advancePhase(g0, Run(g0))
                IN /\ gameState'.players = o.st.players
                   /\ gameState'.phase = o.st.phase
                   /\ gameState'.winners = o.st.winners
                   /\ gameState'.messages = o.st.messages
                   /\ lastCall'.threw = o.threw
                   /\ (/\ Known(gameState.players, gameState.nightActions.wolfKill) = Null
                       /\ Known(gameState.players, gameState.nightActions.witchKill) = Null)
                      => /\ gameState'.players = gameState.players
                         /\ Narrated \cap AbilityNarrations = {}
                         /\ gameState'.phase = "day"
                         /\ ~lastCall'.threw
          /\ (/\ gameState.phase = "voting"
              /\ \E T \in Leaders(gameState.votes) :
                     Leaders(gameState.votes) = {T} /\ ~HasPlayer(gameState.players, T))
             => /\ gameState'.players = gameState.players
                /\ Narrated \cap AbilityNarrations = {}
                /\ gameState'.phase \in {"night", "gameOver"}
                /\ ~lastCall'.threw]_vars

\* the wolves killed the hunter, whose shot named no player, and the poison
\* was given to no player: only the hunter died and the day began
C35_Witness ==
    /\ lastCall.op = "advancePhase"
    /\ lastCall.phase = "night"
    /\ ~lastCall.threw
    /\ gameState.phase = "day"
    /\ gameState.nightActions.wolfKill = "h"
    /\ gameState.nightActions.hunterTarget = "ghost"
    /\ gameState.nightActions.witchKill = "ghost"
    /\ \A i \in DOMAIN gameState.players :
          gameState.players[i].status = "dead" <=> gameState.players[i].id = "h"

\* C36: in every reachable state winners is non-null exactly when the phase
\* is gameOver.
C36_WinnersIffGameOver ==
    gameState.winners # Null <=> gameState.phase = "gameOver"

\* C37: in every reachable state a non-null speakingPlayerId is the id of a
\* player of the roster who is alive and is not the moderator.
C37_SpeakerCanSpeak ==
    gameState.speakingPlayerId # Null
    => \E i \in DOMAIN gameState.players :
          /\ gameState.players[i].id = gameState.speakingPlayerId
          /\ gameState.players[i].status = "alive"
          /\ gameState.players[i].role # "moderator"

\* C38: the witch's powers take effect on at most one night per game: in a
\* night that follows the one in which witchSave was cast (hasPotion false,
\* the slot null again) castVote('witchSave') does not set
\* nightActions.witchSave; the same for witchKill and hasPoison.
C38_WitchPowersOnce ==
    [][(lastCall'.op = "castVote" /\ gameState.phase = "night")
       => /\ (/\ lastCall'.actionType = "witchSave"
              /\ ~gameState.witchPowers.hasPotion
              /\ gameState.nightActions.witchSave = Null)
             => gameState'.nightActions.witchSave = Null
          /\ (/\ lastCall'.actionType = "witchKill"
              /\ ~gameState.witchPowers.hasPoison
              /\ gameState.nightActions.witchKill = Null)
             => gameState'.nightActions.witchKill = Null]_vars

\* how often the village was told content
TimesNarrated(content) ==
    Cardinality({i \in DOMAIN gameState.messages.village :
                    /\ gameState.messages.village[i].senderId = "system"
                    /\ gameState.messages.village[i].content = content})

\* C39: a death-triggered ability fires at most once per player per game: in
\* a game with one hunter and one wolfKing the hunter's shot is applied at
\* most once and the wolfKing's final kill is applied at most once, also when
\* the player is killed twice or targeted again after being dead.  Stated for
\* the calls of advancePhase() that return, in a game where none has thrown.
C39_AbilityFiresOnce ==
    [][(/\ lastCall'.op = "advancePhase"
        /\ ~lastCall'.threw
        /\ gameState.phase # "gameOver"
        /\ TimesNarrated("hunterShoots") <= 1
        /\ TimesNarrated("wolfKingDrags") <= 1)
       => /\ TimesNarrated("hunterShoots")' <= 1
          /\ TimesNarrated("wolfKingDrags")' <= 1]_vars

\* C40: the moderator is alive in every reachable state: no night action,
\* death ability or day vote sets the moderator's status to dead.
C40_ModeratorAlive ==
    \A i \in DOMAIN gameState.players :
        gameState.players[i].role = "moderator" => gameState.players[i].status = "alive"

====
